---- MODULE Spec2Model ----
(***************************************************************************)
(* A model of src/utils/optimizer.ts: the sizing decision                  *)
(* (calculateOptimizationTargets), the packaging loop                      *)
(* (generateOptimizedZip) and two stages of resizeImage, the pyramid loop  *)
(* and the dithered 8-bit quantization.                                    *)
(*                                                                         *)
(* Sizes and samples are JavaScript numbers and may be fractional          *)
(* (maxRenderWidth is a canonical size times a scale, a resampled sample   *)
(* is a weighted float sum).  They are kept in fixed point: the integer n  *)
(* stands for the number n / Scale.                                        *)
(***************************************************************************)
EXTENDS Integers, Sequences, FiniteSets, TLC

VARIABLES
    \* calculateOptimizationTargets: its arguments and its result
    stats, loadedImages, bufferPercentage, tasks, calculated,
    \* generateOptimizedZip: zip entries, loop locals, the callback's calls
    zipFiles, completed, progressCalls, resizedBlob, resizeError, zpc,
    \* resizeImage, pyramid loop
    img, srcW, srcH, floatSrcLen, targetWidth, targetHeight, ppc,
    \* resizeImage, quantization of one output pixel
    pixel, dither, finalData

sizingVars == <<stats, loadedImages, bufferPercentage, tasks, calculated>>
zipVars == <<zipFiles, completed, progressCalls, resizedBlob, resizeError, zpc>>
pyramidVars == <<img, srcW, srcH, floatSrcLen, targetWidth, targetHeight, ppc>>
quantVars == <<pixel, dither, finalData>>
vars == <<sizingVars, zipVars, pyramidVars, quantVars>>

----------------------------------------------------------------------------
(* Bounds of the model *)

Scale == 2            \* fixed-point denominator
MaxDim == 2           \* largest physical image side, in pixels
MaxImages == 3        \* most loaded images (and distinct keys)
MaxBufferSteps == 2   \* bufferPercentage ranges over 0, BufferStep, ...
BufferStep == 25
MaxPathLen == 3       \* longest enumerated originalPath
MaxSrc == 12          \* largest decoded bitmap side fed to the pyramid
MaxTarget == 2        \* largest resize target fed to the pyramid, in pixels

MaxByte == 255        \* largest value of a Uint8ClampedArray element

----------------------------------------------------------------------------
(* JavaScript helpers *)

Min2(x, y) == IF x <= y THEN x ELSE y
Max2(x, y) == IF x >= y THEN x ELSE y
SetMax(S) == CHOOSE x \in S : \A y \in S : y <= x

\* a whole number of pixels in fixed point
Px(n) == n * Scale

\* an optional field: <<>> is undefined, <<v>> is the value v
Undefined == <<>>
Some(v) == <<v>>
\* opt ?? fallback
Coalesce(opt, fallback) == IF opt = Undefined THEN fallback ELSE opt[1]

\* Math.ceil of the fixed-point quotient num / (den * Scale), in fixed point
CeilFixed(num, den) == (-((-num) \div (den * Scale))) * Scale

\* String.prototype.lastIndexOf on a sequence of characters: 0-based, -1 if absent
LastIndexOf(s, ch) ==
    LET I == {i \in 1..Len(s) : s[i] = ch}
    IN IF I = {} THEN -1 ELSE SetMax(I) - 1

\* String.prototype.substring(0, end)
Substring0(s, end) == SubSeq(s, 1, end)

----------------------------------------------------------------------------
(* calculateOptimizationTargets *)

\* statsMap: stats.forEach(s => statsMap.set(s.lookupKey, s)); a later stat
\* with the same lookupKey replaces an earlier one
StatsMap(ss) ==
    [k \in {ss[i].lookupKey : i \in DOMAIN ss} |->
        ss[SetMax({i \in DOMAIN ss : ss[i].lookupKey = k})]]

PhysicalW(original) == Coalesce(original.sourceWidth, original.width)
PhysicalH(original) == Coalesce(original.sourceHeight, original.height)

\* Math.ceil(stat.maxRenderWidth * (1 + bufferPercentage / 100))
BufferedSizeFloor(maxRender, buf) == ((maxRender * (100 + buf)) \div (100 * Scale)) * Scale
BufferedSize(maxRender, buf) == CeilFixed(maxRender * (100 + buf), 100)

\* calculatedW / calculatedH: CASE A user override, CASE B standard optimization
CalculatedSizeAlwaysBuffered(isOverridden, maxRender, buf) == BufferedSize(maxRender, buf)
CalculatedSize(isOverridden, maxRender, buf) ==
    IF isOverridden THEN maxRender ELSE BufferedSize(maxRender, buf)

\* Math.max(1, Math.min(calculated, physical))
FinalCapNoMin(calc, physical) == Max2(Px(1), calc)
FinalCap(calc, physical) == Max2(Px(1), Min2(calc, physical))

\* targetW !== physicalW || targetH !== physicalH
IsResizeBothAxes(tW, tH, pW, pH) == tW # pW /\ tH # pH
IsResize(tW, tH, pW, pH) == tW # pW \/ tH # pH

PngExt == <<".", "p", "n", "g">>

\* the output file name: the extension is stripped only if the last dot is
\* after the last '/' or '\', then ".png" is appended
OutputFileNameAnyDot(sourcePath) ==
    LET lastDotIndex == LastIndexOf(sourcePath, ".")
    IN (IF lastDotIndex > -1 THEN Substring0(sourcePath, lastDotIndex) ELSE sourcePath)
       \o PngExt
OutputFileName(sourcePath) ==
    LET lastSlashIndex == Max2(LastIndexOf(sourcePath, "/"), LastIndexOf(sourcePath, "\\"))
        lastDotIndex == LastIndexOf(sourcePath, ".")
        basePath == IF lastDotIndex > lastSlashIndex
                    THEN Substring0(sourcePath, lastDotIndex)
                    ELSE sourcePath
    IN basePath \o PngExt

\* the task pushed for a loaded image that has a stat
MakeTask(stat, original, buf) ==
    LET physicalW == PhysicalW(original)
        physicalH == PhysicalH(original)
        targetW == FinalCap(CalculatedSize(stat.isOverridden, stat.maxRenderWidth, buf), physicalW)
        targetH == FinalCap(CalculatedSize(stat.isOverridden, stat.maxRenderHeight, buf), physicalH)
    IN [fileName |-> OutputFileName(original.originalPath),
        relativePath |-> original.originalPath,
        originalWidth |-> physicalW,
        originalHeight |-> physicalH,
        targetWidth |-> targetW,
        targetHeight |-> targetH,
        blob |-> original.file,
        maxScaleUsed |-> Max2(stat.maxScaleX, stat.maxScaleY),
        isResize |-> IsResize(targetW, targetH, physicalW, physicalH),
        overridePercentage |-> stat.overridePercentage]

\* a stat that asks for the physical size, so that the image is copied as it is
CopyStat(original) ==
    [lookupKey |-> original.key,
     maxRenderWidth |-> PhysicalW(original), maxRenderHeight |-> PhysicalH(original),
     isOverridden |-> TRUE, maxScaleX |-> Px(1), maxScaleY |-> Px(1),
     overridePercentage |-> Undefined]

\* the callback of loadedImages.forEach: the tasks it pushes for one entry
ForEachBodyKeepUnused(statsMap, original, buf) ==
    IF original.key \notin DOMAIN statsMap
    THEN <<MakeTask(CopyStat(original), original, buf)>>
    ELSE <<MakeTask(statsMap[original.key], original, buf)>>
ForEachBody(statsMap, original, buf) ==
    IF original.key \notin DOMAIN statsMap
    THEN <<>>
    ELSE <<MakeTask(statsMap[original.key], original, buf)>>

\* loadedImages.forEach in the Map's insertion order, over entries i..Len
RECURSIVE PushTasks(_, _, _, _)
PushTasks(statsMap, images, i, buf) ==
    IF i > Len(images) THEN <<>>
    ELSE ForEachBody(statsMap, images[i], buf) \o PushTasks(statsMap, images, i + 1, buf)

\* the comparator of tasks.sort
CompareResizeLast(a, b) == IF a.isResize = b.isResize THEN 0 ELSE IF a.isResize THEN 1 ELSE -1
Compare(a, b) == IF a.isResize = b.isResize THEN 0 ELSE IF a.isResize THEN -1 ELSE 1

\* Array.prototype.sort is stable: x goes behind every element that does not
\* compare greater than it
InsertStable(sorted, x) ==
    LET after == {j \in 1..Len(sorted) : Compare(sorted[j], x) <= 0}
        p == IF after = {} THEN 0 ELSE SetMax(after)
    IN SubSeq(sorted, 1, p) \o <<x>> \o SubSeq(sorted, p + 1, Len(sorted))

RECURSIVE SortFrom(_, _, _)
SortFrom(sorted, ts, i) ==
    IF i > Len(ts) THEN sorted ELSE SortFrom(InsertStable(sorted, ts[i]), ts, i + 1)

SortTasks(ts) == SortFrom(<<>>, ts, 1)

CalculateOptimizationTargets(ss, images, buf) ==
    SortTasks(PushTasks(StatsMap(ss), images, 1, buf))

----------------------------------------------------------------------------
(* The inputs of calculateOptimizationTargets that the model explores *)

Buffers == {i * BufferStep : i \in 0..MaxBufferSteps}
Keys == 1..MaxImages
\* maxRenderWidth / maxRenderHeight: from 0 to just above the largest physical side
RenderVals == 0..(Px(MaxDim) + 1)

Image(k, f, w, h, sw, sh, path) ==
    [key |-> k, file |-> f, width |-> w, height |-> h,
     sourceWidth |-> sw, sourceHeight |-> sh, originalPath |-> path]

Stat(k, mw, mh, ov) ==
    [lookupKey |-> k, maxRenderWidth |-> mw, maxRenderHeight |-> mh,
     isOverridden |-> ov, maxScaleX |-> Px(1), maxScaleY |-> Px(1),
     overridePercentage |-> IF ov THEN Some(50) ELSE Undefined]

\* one axis of a loaded image: <<canonical size, optional physical size>>
AxisOpts ==
    {<<Px(w), Undefined>> : w \in 1..MaxDim}
    \cup {<<Px(w), Some(Px(s))>> : w \in 1..MaxDim, s \in 1..MaxDim}

PlainPath == <<"a", ".", "p">>

\* one image and one stat for it, every combination of sizes
DimensionInputs ==
    {[images |-> <<Image(1, 1, x[1], y[1], x[2], y[2], PlainPath)>>,
      stats |-> <<Stat(1, mw, mh, ov)>>] :
        x \in AxisOpts, y \in AxisOpts, mw \in RenderVals, mh \in RenderVals,
        ov \in BOOLEAN}

\* "a.p" and "a.j" get the same output name; the other keys get their own
PathOfKey(k) ==
    IF k = 1 THEN PlainPath
    ELSE IF k = 2 THEN <<"a", ".", "j">>
    ELSE <<"d", "/">> \o [i \in 1..k |-> "b"]

KeySeqs == UNION {{ks \in [1..n -> Keys] : \A i, j \in 1..n : i # j => ks[i] # ks[j]} :
                    n \in 0..MaxImages}

\* up to MaxImages images of the largest size, in any order of distinct keys
OrderImages ==
    {[i \in DOMAIN ks |->
        Image(ks[i], i, Px(MaxDim), Px(MaxDim), Undefined, Undefined, PathOfKey(ks[i]))] :
        ks \in KeySeqs}

StatOfKind(k, kind) ==
    IF kind = "small" THEN Stat(k, Px(1), Px(MaxDim), FALSE)
    ELSE Stat(k, Px(MaxDim), Px(MaxDim), FALSE)

\* per key no stat, a stat that needs a resize or one that needs none, and
\* possibly one more stat for key 1 at the end, which may repeat that key
OrderStats ==
    {LET all == [k \in Keys |-> StatOfKind(k, kinds[k])]
         Present(s) == kinds[s.lookupKey] # "none"
     IN SelectSeq(all, Present) \o extra :
        kinds \in [Keys -> {"none", "small", "full"}],
        extra \in {<<>>} \cup {<<StatOfKind(1, kind)>> : kind \in {"small", "full"}}}

OrderInputs == {[images |-> im, stats |-> ss] : im \in OrderImages, ss \in OrderStats}

PathChars == {"a", ".", "/", "\\"}
ExampleWithExtension == <<"a", "/", "b", ".", "c", ".", "p", "n", "g">>
ExampleDottedFolder == <<"a", ".", "b", "/", "c">>
Paths ==
    UNION {[1..n -> PathChars] : n \in 1..MaxPathLen}
    \cup {ExampleWithExtension, ExampleDottedFolder}

\* one used image of the largest size, every path
PathInputs ==
    {[images |-> <<Image(1, 1, Px(MaxDim), Px(MaxDim), Undefined, Undefined, path)>>,
      stats |-> <<Stat(1, Px(MaxDim), Px(MaxDim), FALSE)>>] : path \in Paths}

----------------------------------------------------------------------------
(* Idle values of the parts a specification does not use *)

ZipIdle ==
    /\ zipFiles = <<>> /\ completed = 0 /\ progressCalls = <<>>
    /\ resizedBlob = Undefined /\ resizeError = Undefined /\ zpc = "idle"
PyramidIdle ==
    /\ img = Undefined /\ srcW = 0 /\ srcH = 0 /\ floatSrcLen = 0
    /\ targetWidth = 0 /\ targetHeight = 0 /\ ppc = "idle"
QuantIdle ==
    /\ pixel = Undefined /\ dither = Undefined /\ finalData = Undefined
SizingIdle ==
    /\ stats = <<>> /\ loadedImages = <<>> /\ bufferPercentage = 0
    /\ tasks = <<>> /\ calculated = FALSE

----------------------------------------------------------------------------
(* Specification of calculateOptimizationTargets *)

SizingInit ==
    /\ \E in \in DimensionInputs \cup OrderInputs \cup PathInputs :
        /\ stats = in.stats
        /\ loadedImages = in.images
    /\ bufferPercentage = 0
    /\ tasks = <<>>
    /\ calculated = FALSE
    /\ ZipIdle /\ PyramidIdle /\ QuantIdle

\* one call of calculateOptimizationTargets(stats, loadedImages, buf)
Calculate(buf) ==
    /\ tasks' = CalculateOptimizationTargets(stats, loadedImages, buf)
    /\ bufferPercentage' = buf
    /\ calculated' = TRUE
    /\ UNCHANGED <<stats, loadedImages, zipVars, pyramidVars, quantVars>>

SizingNext == \E buf \in Buffers : Calculate(buf)

SizingSpec == SizingInit /\ [][SizingNext]_vars

----------------------------------------------------------------------------
(* Properties of calculateOptimizationTargets *)

\* the loaded image a task was made from: its blob is that image's file
ImageOfTask(t) ==
    CHOOSE image \in {loadedImages[i] : i \in DOMAIN loadedImages} : image.file = t.blob

\* the stat the lookup finds for an image: the last one with its key
StatOfImage(image) ==
    LET J == {j \in DOMAIN stats : stats[j].lookupKey = image.key}
    IN stats[CHOOSE j \in J : \A j2 \in J : j2 <= j]

\* the physical cap: sourceWidth ?? width, sourceHeight ?? height
CapW(image) == IF image.sourceWidth = <<>> THEN image.width ELSE image.sourceWidth[1]
CapH(image) == IF image.sourceHeight = <<>> THEN image.height ELSE image.sourceHeight[1]

Clamp(x, lo, hi) == IF x < lo THEN lo ELSE IF x > hi THEN hi ELSE x

\* ceil((m / Scale) * (1 + b / 100)) in fixed point: the least whole number
\* of pixels that is not below the buffered size
CeilBuffered(m, b) ==
    LET n == CHOOSE n \in 0..(m * (2 + b \div 100)) :
                /\ n * 100 * Scale >= m * (100 + b)
                /\ \A k \in 0..(n - 1) : k * 100 * Scale < m * (100 + b)
    IN n * Scale

\* the size a stat requests: the override as it is, or the buffered size
Requested(stat, m, b) == IF stat.isOverridden THEN m ELSE CeilBuffered(m, b)

\* C1: every task's target is at least 1 and at most the physical size
\* (sourceWidth ?? width, sourceHeight ?? height), which the task reports as
\* originalWidth and originalHeight: nothing is upscaled.
NeverUpscales ==
    calculated =>
        \A i \in DOMAIN tasks :
            LET t == tasks[i]
                image == ImageOfTask(t)
            IN /\ t.originalWidth = CapW(image)
               /\ t.originalHeight = CapH(image)
               /\ Scale <= t.targetWidth /\ t.targetWidth <= t.originalWidth
               /\ Scale <= t.targetHeight /\ t.targetHeight <= t.originalHeight

\* an override asks for more than a physical size that differs from the
\* canonical size
UpscaleRequested ==
    /\ calculated
    /\ \E i \in DOMAIN tasks :
        LET image == ImageOfTask(tasks[i])
            stat == StatOfImage(image)
        IN /\ stat.isOverridden
           /\ image.sourceWidth # <<>> /\ image.sourceWidth[1] < image.width
           /\ stat.maxRenderWidth > CapW(image)
           /\ stat.maxRenderHeight < Scale

\* C2: without an override each axis of the target is
\* clamp(ceil(maxRender * (1 + buffer/100)), 1, physical), whatever the
\* other axis is.
BufferedTargets ==
    calculated =>
        \A i \in DOMAIN tasks :
            LET t == tasks[i]
                image == ImageOfTask(t)
                stat == StatOfImage(image)
            IN ~stat.isOverridden =>
                /\ t.targetWidth =
                     Clamp(CeilBuffered(stat.maxRenderWidth, bufferPercentage), Scale, CapW(image))
                /\ t.targetHeight =
                     Clamp(CeilBuffered(stat.maxRenderHeight, bufferPercentage), Scale, CapH(image))

\* a buffered width that is no whole number is rounded up and stays below the
\* physical width, while the height is capped
BufferedRoundedUp ==
    /\ calculated
    /\ bufferPercentage > 0
    /\ \E i \in DOMAIN tasks :
        LET t == tasks[i]
            image == ImageOfTask(t)
            stat == StatOfImage(image)
        IN /\ ~stat.isOverridden
           /\ (stat.maxRenderWidth * (100 + bufferPercentage)) % (100 * Scale) # 0
           /\ t.targetWidth < CapW(image)
           /\ stat.maxRenderHeight > CapH(image)

\* what the tasks say about the assets whose stat is overridden
OverriddenOutcome(ts) ==
    {<<ts[i].blob, ts[i].targetWidth, ts[i].targetHeight, ts[i].isResize>> :
        i \in {n \in DOMAIN ts : StatOfImage(ImageOfTask(ts[n])).isOverridden}}

\* C3: with an override the target is maxRenderWidth/maxRenderHeight clamped
\* to [1, physical], and a second run that differs only in bufferPercentage
\* gives every overridden asset the same target and the same isResize.
OverrideIgnoresBuffer ==
    /\ [](calculated =>
            \A i \in DOMAIN tasks :
                LET t == tasks[i]
                    image == ImageOfTask(t)
                    stat == StatOfImage(image)
                IN stat.isOverridden =>
                    /\ t.targetWidth = Clamp(stat.maxRenderWidth, Scale, CapW(image))
                    /\ t.targetHeight = Clamp(stat.maxRenderHeight, Scale, CapH(image)))
    /\ [][(calculated /\ calculated' /\ bufferPercentage' # bufferPercentage)
            => OverriddenOutcome(tasks') = OverriddenOutcome(tasks)]_vars

\* an overridden asset whose target the buffer would have changed
OverrideWhereBufferMatters ==
    /\ calculated
    /\ bufferPercentage > 0
    /\ \E i \in DOMAIN tasks :
        LET t == tasks[i]
            image == ImageOfTask(t)
            stat == StatOfImage(image)
        IN /\ stat.isOverridden
           /\ Clamp(CeilBuffered(stat.maxRenderWidth, bufferPercentage), Scale, CapW(image))
                # t.targetWidth

\* the positions of the loaded images for whose key there is a stat
UsedImages ==
    {i \in DOMAIN loadedImages : \E j \in DOMAIN stats : stats[j].lookupKey = loadedImages[i].key}

\* C4: one task for each loaded image that has a stat, none for the others:
\* as many tasks as loaded images minus those absent from the stats, and a
\* stat without a loaded image adds none.
OneTaskPerUsedImage ==
    calculated =>
        /\ Len(tasks) = Len(loadedImages) - Cardinality(DOMAIN loadedImages \ UsedImages)
        /\ \A i \in DOMAIN loadedImages :
            Cardinality({n \in DOMAIN tasks : tasks[n].blob = loadedImages[i].file})
                = IF i \in UsedImages THEN 1 ELSE 0
        /\ \A n \in DOMAIN tasks : \E i \in UsedImages : tasks[n].blob = loadedImages[i].file

\* a used image, an unused image, a stat without image and a repeated key
UnusedImageDropped ==
    /\ calculated
    /\ UsedImages # {}
    /\ DOMAIN loadedImages \ UsedImages # {}
    /\ \E j \in DOMAIN stats : \A i \in DOMAIN loadedImages : loadedImages[i].key # stats[j].lookupKey
    /\ \E j, k \in DOMAIN stats : j # k /\ stats[j].lookupKey = stats[k].lookupKey

\* C5: isResize says that the target differs from the physical size on some
\* axis; a request of at least the physical size on both axes gives the
\* physical size and isResize = false.
ResizeFlag ==
    calculated =>
        \A i \in DOMAIN tasks :
            LET t == tasks[i]
                image == ImageOfTask(t)
                stat == StatOfImage(image)
            IN /\ t.isResize <=> (t.targetWidth # CapW(image) \/ t.targetHeight # CapH(image))
               /\ (/\ Requested(stat, stat.maxRenderWidth, bufferPercentage) >= CapW(image)
                   /\ Requested(stat, stat.maxRenderHeight, bufferPercentage) >= CapH(image))
                  => /\ t.targetWidth = CapW(image)
                     /\ t.targetHeight = CapH(image)
                     /\ ~t.isResize

\* sourceWidth below a larger maxRenderWidth with no buffer, as in the
\* spec's example (sourceWidth=100, maxRenderWidth=200, buffer=0)
RequestAbovePhysical ==
    /\ calculated
    /\ bufferPercentage = 0
    /\ \E i \in DOMAIN tasks :
        LET image == ImageOfTask(tasks[i])
            stat == StatOfImage(image)
        IN /\ image.sourceWidth # <<>>
           /\ stat.maxRenderWidth > CapW(image)
           /\ stat.maxRenderHeight >= CapH(image)

\* the position of a task's image in the iteration order of loadedImages
Discovered(t) == CHOOSE i \in DOMAIN loadedImages : loadedImages[i].file = t.blob

\* C6: the tasks with isResize come first, and within the tasks with
\* isResize and within those without, the order of loadedImages is kept.
StablePartition ==
    calculated =>
        \A i, j \in DOMAIN tasks :
            i < j =>
                /\ tasks[i].isResize \/ ~tasks[j].isResize
                /\ tasks[i].isResize = tasks[j].isResize
                    => Discovered(tasks[i]) < Discovered(tasks[j])

\* the sort moved a task forward, and two tasks share a group
SortReordered ==
    /\ calculated
    /\ \E i, j \in DOMAIN tasks : i < j /\ Discovered(tasks[i]) > Discovered(tasks[j])
    /\ \E i, j \in DOMAIN tasks : i < j /\ tasks[i].isResize = tasks[j].isResize

Separators == {"/", "\\"}

\* a path without its extension: cut at a dot that no dot and no separator follows
BaseOf(path) ==
    LET ext == {i \in 1..Len(path) :
                    /\ path[i] = "."
                    /\ \A j \in (i + 1)..Len(path) : path[j] # "." /\ path[j] \notin Separators}
    IN IF ext = {} THEN path ELSE SubSeq(path, 1, (CHOOSE i \in ext : TRUE) - 1)

\* C7: fileName is the path without its extension plus ".png", where only a
\* dot after the last separator starts an extension ("a/b.c.png" gives
\* "a/b.c.png", "a.b/c" gives "a.b/c.png"); relativePath is the path.
FileNameRule ==
    calculated =>
        \A i \in DOMAIN tasks :
            LET t == tasks[i]
                path == ImageOfTask(t).originalPath
            IN /\ t.relativePath = path
               /\ t.fileName = BaseOf(path) \o <<".", "p", "n", "g">>
               /\ path = <<"a", "/", "b", ".", "c", ".", "p", "n", "g">>
                    => t.fileName = <<"a", "/", "b", ".", "c", ".", "p", "n", "g">>
               /\ path = <<"a", ".", "b", "/", "c">>
                    => t.fileName = <<"a", ".", "b", "/", "c", ".", "p", "n", "g">>

\* a task for a path whose only dot is in a directory name
DottedFolderNamed ==
    /\ calculated
    /\ \E i \in DOMAIN tasks :
        /\ tasks[i].relativePath = <<"a", ".", "b", "/", "c">>
        /\ tasks[i].fileName = <<"a", ".", "b", "/", "c", ".", "p", "n", "g">>

----------------------------------------------------------------------------
(* generateOptimizedZip *)

\* the bytes of a source File, and the PNG resizeImage makes of it
SourceBytes(file) == <<"source", file>>
Resampled(file, tW, tH) == <<"resampled", file, tW, tH>>

\* how a call of resizeImage can end: a PNG, createImageBitmap rejecting,
\* getRawBytesViaWebGL returning null, an exception in the pipeline, or
\* exportBytesViaWebGL / canvas.toBlob giving null
ResizeOutcomes == {"ok", "decodeFailed", "importFailed", "processingFailed", "encodeFailed"}
Thrown == {"decodeFailed", "importFailed", "processingFailed"}

\* the value resizeImage resolves to: the catch block turns an exception into null
ResizeImage(blob, tW, tH, outcome) ==
    IF outcome = "ok" THEN Some(Resampled(blob, tW, tH)) ELSE Undefined

\* rootFolder.file(zipEntryName, data): JSZip keeps one entry per name
FileWrite(files, name, data) ==
    [n \in DOMAIN files \cup {name} |-> IF n = name THEN data ELSE files[n]]

\* the branches of the loop body that add the task's entry
AddEntrySkipFailed(files, task, resized) ==
    IF task.isResize
    THEN IF resized # Undefined
         THEN FileWrite(files, task.fileName, resized[1])
         ELSE files
    ELSE FileWrite(files, task.fileName, SourceBytes(task.blob))
AddEntry(files, task, resized) ==
    IF task.isResize
    THEN IF resized # Undefined
         THEN FileWrite(files, task.fileName, resized[1])
         ELSE FileWrite(files, task.fileName, SourceBytes(task.blob))
    ELSE FileWrite(files, task.fileName, SourceBytes(task.blob))

\* the task lists handed to generateOptimizedZip: results of
\* calculateOptimizationTargets
ZipTaskLists ==
    {CalculateOptimizationTargets(in.stats, in.images, 0) : in \in OrderInputs}

\* rootFolder = zip.folder("images_optimized") is a folder object for every
\* string name, so the loop's "if (!rootFolder) break" is never taken
ZipInit ==
    /\ tasks \in ZipTaskLists
    /\ stats = <<>> /\ loadedImages = <<>> /\ bufferPercentage = 0 /\ calculated = TRUE
    /\ zipFiles = <<>>
    /\ completed = 0
    /\ progressCalls = <<>>
    /\ resizedBlob = Undefined
    /\ resizeError = Undefined
    /\ zpc = "loop"
    /\ PyramidIdle /\ QuantIdle

\* an iteration for a task that needs no resize: direct copy, then progress
CopyTask ==
    /\ zpc = "loop"
    /\ completed < Len(tasks)
    /\ ~tasks[completed + 1].isResize
    /\ zipFiles' = AddEntry(zipFiles, tasks[completed + 1], Undefined)
    /\ completed' = completed + 1
    /\ progressCalls' = Append(progressCalls, <<completed + 1, Len(tasks)>>)
    /\ UNCHANGED <<resizedBlob, resizeError, zpc>>
    /\ UNCHANGED <<sizingVars, pyramidVars, quantVars>>

\* an iteration for a task that needs a resize, up to await resizeImage(...)
StartResize ==
    /\ zpc = "loop"
    /\ completed < Len(tasks)
    /\ tasks[completed + 1].isResize
    /\ zpc' = "resizing"
    /\ UNCHANGED <<zipFiles, completed, progressCalls, resizedBlob, resizeError>>
    /\ UNCHANGED <<sizingVars, pyramidVars, quantVars>>

\* resizeImage settles and the iteration runs to its end
ResizeSettles(outcome) ==
    /\ zpc = "resizing"
    /\ LET task == tasks[completed + 1]
           result == ResizeImage(task.blob, task.targetWidth, task.targetHeight, outcome)
       IN /\ resizedBlob' = result
          /\ resizeError' = IF outcome \in Thrown THEN Some(outcome) ELSE resizeError
          /\ zipFiles' = AddEntry(zipFiles, task, result)
    /\ completed' = completed + 1
    /\ progressCalls' = Append(progressCalls, <<completed + 1, Len(tasks)>>)
    /\ zpc' = "loop"
    /\ UNCHANGED <<sizingVars, pyramidVars, quantVars>>

\* the loop is over: zip.generateAsync
Generate ==
    /\ zpc = "loop"
    /\ completed = Len(tasks)
    /\ zpc' = "done"
    /\ UNCHANGED <<zipFiles, completed, progressCalls, resizedBlob, resizeError>>
    /\ UNCHANGED <<sizingVars, pyramidVars, quantVars>>

ZipNext ==
    \/ CopyTask
    \/ StartResize
    \/ \E outcome \in ResizeOutcomes : ResizeSettles(outcome)
    \/ Generate

ZipSpec == ZipInit /\ [][ZipNext]_vars

----------------------------------------------------------------------------
(* Properties of generateOptimizedZip *)

\* C8: the tasks are handled one at a time in list order and none stops the
\* batch: the k-th iteration adds the entry tasks[k].fileName, which holds
\* the resampled bytes only if isResize and resizeImage gave a result, and the
\* source bytes if not isResize or resizeImage gave null; onProgress(k, total)
\* follows the k-th task, so the last call is (total, total).
BatchNeverAborts ==
    /\ [](/\ completed \in 0..Len(tasks)
          /\ Len(progressCalls) = completed
          /\ \A k \in 1..completed :
                /\ progressCalls[k] = <<k, Len(tasks)>>
                /\ tasks[k].fileName \in DOMAIN zipFiles
          /\ zpc = "resizing" => completed < Len(tasks) /\ tasks[completed + 1].isResize
          /\ zpc = "done" =>
                /\ completed = Len(tasks)
                /\ Len(tasks) > 0 => progressCalls[Len(progressCalls)] = <<Len(tasks), Len(tasks)>>)
    /\ [][/\ completed' \in {completed, completed + 1}
          /\ completed' = completed => zipFiles' = zipFiles
          /\ completed' = completed + 1 =>
                LET t == tasks[completed + 1]
                IN /\ t.fileName \in DOMAIN zipFiles'
                   /\ t.isResize =>
                        resizedBlob' \in {<<>>, <<<<"resampled", t.blob, t.targetWidth, t.targetHeight>>>>}
                   /\ zipFiles'[t.fileName] =
                        IF t.isResize /\ resizedBlob' # <<>>
                        THEN resizedBlob'[1]
                        ELSE <<"source", t.blob>>
                   /\ \A n \in DOMAIN zipFiles \ {t.fileName} :
                        n \in DOMAIN zipFiles' /\ zipFiles'[n] = zipFiles[n]]_vars

\* a finished batch in which a resize failed with an exception and its entry
\* holds the source bytes, while a later resize succeeded
FailedResizeFellBack ==
    /\ zpc = "done"
    /\ resizeError # Undefined
    /\ \E i, j \in DOMAIN tasks :
        /\ i < j
        /\ tasks[i].fileName # tasks[j].fileName
        /\ tasks[i].isResize
        /\ zipFiles[tasks[i].fileName] = <<"source", tasks[i].blob>>
        /\ tasks[j].isResize
        /\ zipFiles[tasks[j].fileName] # <<"source", tasks[j].blob>>

----------------------------------------------------------------------------
(* resizeImage: B. the Float32 pyramid *)

\* the loop condition: srcW > targetWidth * 2 && srcH > targetHeight * 2
\* (srcW and srcH are whole pixels, the targets are fixed point)
PyramidContinueEither(w, h, tW, tH) == Px(w) > tW * 2 \/ Px(h) > tH * 2
PyramidContinue(w, h, tW, tH) == Px(w) > tW * 2 /\ Px(h) > tH * 2

\* after the import: srcW, srcH are the bitmap's size, floatSrc its samples
PyramidInit ==
    /\ \E w \in 1..MaxSrc, h \in 1..MaxSrc :
        /\ img = [width |-> w, height |-> h]
        /\ srcW = w
        /\ srcH = h
        /\ floatSrcLen = w * h * 4
    /\ targetWidth \in Px(1)..Px(MaxTarget)
    /\ targetHeight \in Px(1)..Px(MaxTarget)
    /\ ppc = "pyramid"
    /\ SizingIdle /\ ZipIdle /\ QuantIdle

\* one iteration: the 2x2 box filter into a buffer of half the size
PyramidStep ==
    /\ ppc = "pyramid"
    /\ PyramidContinue(srcW, srcH, targetWidth, targetHeight)
    /\ LET nextW == srcW \div 2
           nextH == srcH \div 2
       IN /\ floatSrcLen' = nextW * nextH * 4
          /\ srcW' = nextW
          /\ srcH' = nextH
    /\ UNCHANGED <<img, targetWidth, targetHeight, ppc>>
    /\ UNCHANGED <<sizingVars, zipVars, quantVars>>

\* the condition fails: on to C. the Lanczos3 resize
PyramidExit ==
    /\ ppc = "pyramid"
    /\ ~PyramidContinue(srcW, srcH, targetWidth, targetHeight)
    /\ ppc' = "lanczos"
    /\ UNCHANGED <<img, srcW, srcH, floatSrcLen, targetWidth, targetHeight>>
    /\ UNCHANGED <<sizingVars, zipVars, quantVars>>

PyramidNext == PyramidStep \/ PyramidExit

\* the loop is synchronous code: it keeps running while it can
PyramidSpec == PyramidInit /\ [][PyramidNext]_vars /\ WF_vars(PyramidNext)

\* C9: the pyramid loop ends for every source size and every target >= 1;
\* an iteration runs only while srcW > 2*targetWidth and srcH > 2*targetHeight
\* and replaces (srcW, srcH) by (floor(srcW/2), floor(srcH/2)); after the
\* loop srcW <= 2*targetWidth or srcH <= 2*targetHeight.
PyramidTerminates ==
    /\ <>(ppc = "lanczos")
    /\ [](ppc = "lanczos" =>
            (srcW * Scale <= 2 * targetWidth \/ srcH * Scale <= 2 * targetHeight))
    /\ [][(srcW' # srcW \/ srcH' # srcH \/ floatSrcLen' # floatSrcLen) =>
            /\ srcW * Scale > 2 * targetWidth
            /\ srcH * Scale > 2 * targetHeight
            /\ 2 * srcW' <= srcW /\ srcW < 2 * srcW' + 2
            /\ 2 * srcH' <= srcH /\ srcH < 2 * srcH' + 2]_vars
    /\ [][(/\ ppc = "pyramid"
           /\ srcW * Scale > 2 * targetWidth
           /\ srcH * Scale > 2 * targetHeight) => ppc' = "pyramid"]_vars

\* the loop ended after at least two halvings of an odd width, for a target
\* that is no whole number
HalvedTwice ==
    /\ ppc = "lanczos"
    /\ img.width % 2 = 1
    /\ 4 * srcW <= img.width
    /\ 4 * srcH <= img.height
    /\ targetWidth % Scale # 0

----------------------------------------------------------------------------
(* resizeImage: D. the PMA safety clamp and the TPDF dither of one pixel *)

\* Math.random() is k / RandScale for some k in 0..RandScale-1
RandScale == 2 * Scale

\* the float sums r, g, b, a of the vertical pass: every step of 1/Scale
\* within one unit of 0 and of MaxByte, where the conversion clamps
SampleVals ==
    ((-Scale)..Scale) \cup ((MaxByte * Scale - Scale)..(MaxByte * Scale + Scale))

\* the conversion of a number x / RandScale on a store into a
\* Uint8ClampedArray: clamped to 0..255, rounded to nearest, ties to even
ToUint8Clamp(x) ==
    IF x <= 0 THEN 0
    ELSE IF x >= MaxByte * RandScale THEN MaxByte
    ELSE LET f == x \div RandScale
             rest == x - f * RandScale
         IN IF 2 * rest < RandScale THEN f
            ELSE IF 2 * rest > RandScale THEN f + 1
            ELSE IF f % 2 = 0 THEN f ELSE f + 1

\* Math.min(r, a) + dither, over RandScale
QuantizeColorUnclamped(c, a, d) == c * 2 + d
QuantizeColor(c, a, d) == Min2(c, a) * 2 + d

QuantInit ==
    /\ pixel \in [r : SampleVals, g : SampleVals, b : SampleVals, a : SampleVals]
    /\ dither = Undefined
    /\ finalData = Undefined
    /\ SizingIdle /\ ZipIdle /\ PyramidIdle

\* the body of the inner loop after the taps, with the two random draws
QuantizePixel(rand1, rand2) ==
    /\ finalData = Undefined
    /\ LET d == rand1 + rand2 - RandScale
           finalA == pixel.a * 2 + d
       IN /\ dither' = Some(d)
          /\ finalData' = Some(<<ToUint8Clamp(QuantizeColor(pixel.r, pixel.a, d)),
                                 ToUint8Clamp(QuantizeColor(pixel.g, pixel.a, d)),
                                 ToUint8Clamp(QuantizeColor(pixel.b, pixel.a, d)),
                                 ToUint8Clamp(finalA)>>)
    /\ UNCHANGED pixel
    /\ UNCHANGED <<sizingVars, zipVars, pyramidVars>>

QuantNext == \E rand1 \in 0..(RandScale - 1), rand2 \in 0..(RandScale - 1) : QuantizePixel(rand1, rand2)

QuantSpec == QuantInit /\ [][QuantNext]_vars

\* v is the byte nearest to x / RandScale clamped to [0, 255], an even byte
\* when two are as near
NearestByte(v, x) ==
    LET cl == IF x < 0 THEN 0 ELSE IF x > 255 * RandScale THEN 255 * RandScale ELSE x
        dist == IF v * RandScale >= cl THEN v * RandScale - cl ELSE cl - v * RandScale
    IN /\ v \in 0..255
       /\ 2 * dist <= RandScale
       /\ 2 * dist = RandScale => v % 2 = 0

\* C10: with one dither d for the four channels, a colour is stored as
\* min(colour, alpha) + d and alpha as alpha + d, so the colour before the
\* dither is at most alpha; every stored byte is in [0, 255] and every stored
\* colour is at most the stored alpha.
PremultipliedAlphaKept ==
    finalData # <<>> =>
        LET d == dither[1]
            out == finalData[1]
            Pre(c) == IF c <= pixel.a THEN c ELSE pixel.a
        IN /\ -RandScale <= d /\ d < RandScale
           /\ \A c \in {pixel.r, pixel.g, pixel.b} : Pre(c) <= pixel.a
           /\ NearestByte(out[1], 2 * Pre(pixel.r) + d)
           /\ NearestByte(out[2], 2 * Pre(pixel.g) + d)
           /\ NearestByte(out[3], 2 * Pre(pixel.b) + d)
           /\ NearestByte(out[4], 2 * pixel.a + d)
           /\ \A k \in 1..4 : out[k] \in 0..255
           /\ \A k \in 1..3 : out[k] <= out[4]

\* red above an alpha inside the byte range, and a positive dither with
\* which red itself would be stored above the stored alpha
ClampWasNeeded ==
    /\ finalData # <<>>
    /\ dither[1] > 0
    /\ pixel.r > pixel.a
    /\ 0 < 2 * pixel.a + dither[1] /\ 2 * pixel.a + dither[1] < 255 * RandScale
    /\ \E v \in 0..255 : NearestByte(v, 2 * pixel.r + dither[1]) /\ v > finalData[1][4]

====
